---- MODULE Spec2Model ----
(***************************************************************************)
(* A model of go-schroedinger (schroedinger.go): the retry scheduling and  *)
(* failure reconciliation of flaky go tests.  Text is modelled as          *)
(* sequences of one-character strings, so that the string operations of    *)
(* the source (Contains, Split, Trim, TrimSuffix) are computed.            *)
(***************************************************************************)
EXTENDS Integers, Sequences, FiniteSets, TLC

\* ------------------------------------------------------------------ bounds
\* configured targets that survive the filter
MaxTests == 2
\* goroutines of one run: one per target, plus one per case discovered in a
\* failing package run
MaxTasks == 3
\* largest trial budget (global or override) a configuration uses
MaxTrials == 2

\* ------------------------------------------------------- strings (Go: strings)
RECURSIVE Flatten(_)
Flatten(ss) == IF ss = <<>> THEN <<>> ELSE Head(ss) \o Flatten(Tail(ss))

Contains(s, sub) ==
  \E i \in 1..(Len(s) - Len(sub) + 1) : SubSeq(s, i, i + Len(sub) - 1) = sub

\* strings.Split(s, sep) for a one-character separator
RECURSIVE SplitAcc(_, _, _)
SplitAcc(s, sep, cur) ==
  IF s = <<>> THEN <<cur>>
  ELSE IF Head(s) = sep THEN <<cur>> \o SplitAcc(Tail(s), sep, <<>>)
  ELSE SplitAcc(Tail(s), sep, Append(cur, Head(s)))

Split(s, sep) == SplitAcc(s, sep, <<>>)

RECURSIVE TrimLeft(_, _)
TrimLeft(s, ch) ==
  IF s # <<>> /\ Head(s) = ch THEN TrimLeft(Tail(s), ch) ELSE s

RECURSIVE TrimRight(_, _)
TrimRight(s, ch) ==
  IF s # <<>> /\ s[Len(s)] = ch THEN TrimRight(SubSeq(s, 1, Len(s) - 1), ch) ELSE s

Trim(s, ch) == TrimRight(TrimLeft(s, ch), ch)

TrimSuffix(s, suf) ==
  IF Len(s) >= Len(suf) /\ SubSeq(s, Len(s) - Len(suf) + 1, Len(s)) = suf
  THEN SubSeq(s, 1, Len(s) - Len(suf))
  ELSE s

\* bufio.Scanner with the default ScanLines: the lines without their "\n";
\* a final empty line is not a token
ScanLines(bytes) ==
  LET parts == Split(bytes, "\n")
  IN  IF parts[Len(parts)] = <<>> THEN SubSeq(parts, 1, Len(parts) - 1) ELSE parts

\* ------------------------------------------------------------ pure functions
Nil == <<>>

Marker == <<"-", "-", "-", " ", "F", "A", "I", "L", ":">>

Separator == "/"

getNonRecursivePackageName(s) ==
  TrimSuffix(TrimSuffix(s, <<Separator, ".", ".", ".">>), <<".", ".", ".">>)

RECURSIVE grepLines(_)
grepLines(lines) ==
  IF lines = <<>> THEN <<>>
  ELSE LET text == Head(lines)
       IN  IF ~Contains(text, Marker) THEN grepLines(Tail(lines))
           ELSE LET step1 == Split(text, ":")
                    step2 == Split(step1[2], "(")
                    testname == Trim(step2[1], " ")
                IN  <<testname>> \o grepLines(Tail(lines))

grepFailures(gotestout) == grepLines(ScanLines(gotestout))

\* ------------------------------------------------------------------- state
VARIABLES
  trialsN,              \* run's argument trialsN
  GlobalTrialsAllowed,  \* config.GlobalTrialsAllowed
  tests,                \* run's tests: the targets that survived the filter
  failingTests,         \* tryPackageTest's failingTests, per group target
  proc,                 \* the goroutines: ref -> control state
  results,              \* run's results channel (buffered, FIFO)
  pcs,                  \* tryPackageTest's pc channel, per group target
  arrived,              \* every outcome sent on results, in order of arrival
  i,                    \* run's loop counter: outcomes received
  runPc,                \* "init", "collect" or "returned"
  runErr,               \* run's return value once runPc = "returned"
  closed,               \* close(results) was executed
  exited,               \* log.Fatalf ended the process
  built,                \* an application of buildTestFromCase: its argument and result
  filt,                 \* an application of the filter: the lists and the targets kept
  runner                \* the errors the external runner can end with on this host

vars == <<trialsN, GlobalTrialsAllowed, tests, failingTests, proc, results, pcs,
          arrived, i, runPc, runErr, closed, exited, built, filt, runner>>

\* A goroutine is named <<n, 0>> (go tryTest(tests[n], results)) or <<n, j>>
\* (go tryTestCase(failingTests[j], pc), launched by tryPackageTest of tests[n]).
Top(n) == <<n, 0>>

Kid(n, j) == <<n, j>>

IsTop(r) == r[2] = 0

\* one shared target for the discovered cases of the same name
kidTargetByName(ts, j) ==
  CHOOSE k \in 1..Len(ts) :
    /\ ts[k].Name = ts[j].Name
    /\ \A m \in 1..(k - 1) : ts[m].Name # ts[j].Name

\* the target of the j-th goroutine tryPackageTest launches: the j-th element of
\* failingTests, a Test of its own for every extracted name
kidTarget(ts, j) == j

\* the Test a goroutine works on, as a place in tests or failingTests
ObjOf(r) == IF IsTop(r) THEN r ELSE <<r[1], kidTarget(failingTests[r[1]], r[2])>>

Task(r) == IF IsTop(r) THEN tests[r[1]] ELSE failingTests[r[1]][ObjOf(r)[2]]

\* ----------------------------------------------------------- configuration
CaseNames == {<<"A">>, <<"B">>}

Digits == <<"1", "2", "3", "4", "5", "6", "7", "8", "9">>

PkgName(n) == <<"p", Digits[n], Separator, ".", ".", ".">>

Case(name, allowed) == [Name |-> name, TrialsDone |-> 0, TrialsAllowed |-> allowed]

\* AnyFailing is false unless the configuration sets it (the zero value)
Test(name, done, allowed, cases) ==
  [Name |-> name, AnyFailing |-> FALSE, TrialsDone |-> done,
   TrialsAllowed |-> allowed, Cases |-> cases]

Overrides == 0..MaxTrials

\* the outcome of one run of the external go test process: nil, an exit error
\* (the tests failed), or the error of a process that could not be started
ExitErr == <<"exit status 1">>

LaunchErr == <<"fork/exec: no such file or directory">>

ErrTrials == <<"trials allowed must be >0">>

FailErr(name) == <<"F", "A", "I", "L", " ">> \o name

FailLine(name) ==
  Marker \o <<" ">> \o name \o <<" ", "(", "1", ".", "2", "s", ")", "\n">>

NoiseLine == <<"=", "=", "=", " ", "R", "U", "N", "\n">>

SummaryLine == <<"F", "A", "I", "L", "\t", "p", "\n">>

\* the captured output of a failing go test naming the cases ns, in order, between
\* unrelated lines; a failing subtest's line is indented
Render(ns) ==
  Flatten([k \in 1..Len(ns) |->
             NoiseLine \o (IF k > 1 THEN <<" ", " ">> ELSE <<>>) \o FailLine(ns[k])])
    \o SummaryLine

\* the lists of failing cases a run prints: up to the renaming of the cases, so
\* the first is "A"; a name may come twice
FailLists ==
  {ns \in UNION {[1..k -> CaseNames] : k \in 0..(MaxTasks - 1)} :
     ns # <<>> => ns[1] = <<"A">>}

\* what a failing run can print; the empty output is a process that did not start
Outputs == {Render(ns) : ns \in FailLists} \cup {<<>>}

\* the outputs that come with runTest's error e: a process that could not be
\* started printed nothing
OutputsOf(e) == IF e = LaunchErr THEN {<<>>} ELSE Outputs

\* grepFailures on each of these outputs
Extracted == [o \in Outputs |-> grepFailures(o)]

\* --------------------------------------------------------------- Test methods
getCase(t, name) ==
  IF \E k \in 1..Len(t.Cases) : t.Cases[k].Name = name
  THEN <<t.Cases[CHOOSE k \in 1..Len(t.Cases) :
            /\ t.Cases[k].Name = name
            /\ \A m \in 1..(k - 1) : t.Cases[m].Name # name]>>
  ELSE <<>>

getTrialsAllowed(t) ==
  IF t.TrialsAllowed # 0 THEN t.TrialsAllowed ELSE GlobalTrialsAllowed

\* (*Test, error): test is <<out>>, or <<>> with the error
buildTestFromCase(t, caseName) ==
  LET c == getCase(t, caseName)
  IN  IF c = <<>> THEN [test |-> <<>>, err |-> <<"no test case found">>]
      ELSE [test |-> <<Test(getNonRecursivePackageName(t.Name)
                              \o <<" ", "-", "r", "u", "n", " ">> \o c[1].Name,
                            t.TrialsDone,
                            IF c[1].TrialsAllowed # 0 THEN c[1].TrialsAllowed ELSE 0,
                            <<>>)>>,
            err |-> Nil]

\* parseMatchList: nil for the empty string, else the entries between commas of
\* the string with the blanks at its two ends cut
parseMatchList(list) ==
  IF Len(list) = 0 THEN <<>> ELSE Split(Trim(list, " "), ",")

\* the blacklist loop of testMatchesList: an entry is in the name or in a
\* declared case's name
inBlacks(t, blacks) ==
  \E k \in 1..Len(blacks) :
    \/ Contains(t.Name, blacks[k])
    \/ \E c \in 1..Len(t.Cases) : Contains(t.Cases[c].Name, blacks[k])

\* the filter asking the whitelist before the blacklist
testMatchesListWhitesFirst(t, whites, blacks) ==
  IF Len(whites) > 0 /\ Contains(t.Name, whites[1]) THEN TRUE
  ELSE IF Len(blacks) > 0 /\ inBlacks(t, blacks) THEN FALSE
  ELSE Len(whites) = 0

\* testMatchesList: the whitelist loop returns in its first iteration, on the
\* first entry and the target's name
testMatchesList(t, whites, blacks) ==
  IF Len(blacks) > 0 /\ inBlacks(t, blacks) THEN FALSE
  ELSE IF Len(whites) > 0
       THEN (IF ~Contains(t.Name, whites[1]) THEN FALSE ELSE TRUE)
       ELSE TRUE

\* filterTests with run's allowed
RECURSIVE filterTests(_, _, _)
filterTests(ts, whites, blacks) ==
  IF ts = <<>> THEN <<>>
  ELSE (IF testMatchesList(Head(ts), whites, blacks) THEN <<Head(ts)>> ELSE <<>>)
         \o filterTests(Tail(ts), whites, blacks)

\* runTest without its count
runTestNoCount(t) == t

\* runTest's effect on the target: one more trial done, whatever the outcome
runTest(t) == [t EXCEPT !.TrialsDone = @ + 1]

\* ------------------------------------------------------- the goroutines' steps
\* A step's result: the goroutine's next position, the outcome of the run it
\* made, and what it sends on its channel.
\* runs counts the goroutine's calls of runTest and err is what the last returned.
NewProc(pc) ==
  [pc |-> pc, last |-> "none", sent |-> 0, out |-> Nil, i |-> 0, o |-> <<>>,
   runs |-> 0, err |-> Nil]

\* tryTest: a target with declared cases goes to the retry loop, the others to
\* the package run
tryTest(t) == IF Len(t.Cases) # 0 THEN "loop" ELSE "pkg"

\* the loop condition off by one: one trial more than allowed
loopCondOffByOne(t) == t.TrialsDone <= getTrialsAllowed(t)

\* tryTestCase's loop condition
loopCond(t) == t.TrialsDone < getTrialsAllowed(t)

\* the iteration without its return: a pass sends nil and the loop goes on
caseIterNoReturn(e) ==
  IF e = Nil THEN [pc |-> "loop", last |-> "pass", send |-> <<Nil>>]
  ELSE [pc |-> "loop", last |-> "fail", send |-> <<>>]

\* tryTestCase, one iteration's body after runTest returned e
caseIter(e) ==
  IF e = Nil THEN [pc |-> "done", last |-> "pass", send |-> <<Nil>>]
  ELSE [pc |-> "loop", last |-> "fail", send |-> <<>>]

\* tryTestCase after the loop
caseExit(t) == [pc |-> "done", send |-> <<FailErr(t.Name)>>]

\* the check left out: a failing run without failure lines goes on
noFailuresUnchecked(fails) == FALSE

\* tryPackageTest's check of what grepFailures found
noFailures(fails) == Len(fails) = 0

\* discovered targets that start with no trial done
discoveredFromZero(fails) == [j \in 1..Len(fails) |-> Test(fails[j], 0, 0, <<>>)]

\* tryPackageTest's discovered targets
discovered(fails) == [j \in 1..Len(fails) |-> Test(fails[j], 1, 0, <<>>)]

\* the collecting loop without its return: a failure is sent on and the loop
\* goes on, to the final send of nil
pkgRecvNoReturn(e, k, n) ==
  [pc |-> IF k + 1 = n THEN "done" ELSE "wait",
   i |-> k + 1,
   send |-> (IF e # Nil THEN <<e>> ELSE <<>>) \o (IF k + 1 = n THEN <<Nil>> ELSE <<>>)]

\* the collecting loop dropping the failures it receives
pkgRecvDropsFailure(e, k, n) ==
  IF k + 1 = n THEN [pc |-> "done", i |-> k + 1, send |-> <<Nil>>]
  ELSE [pc |-> "wait", i |-> k + 1, send |-> <<>>]

\* the reconciliation that returns on a failure without forwarding it
pkgRecvNoSend(e, k, n) ==
  IF e # Nil THEN [pc |-> "done", i |-> k, send |-> <<>>]
  ELSE IF k + 1 = n THEN [pc |-> "done", i |-> k + 1, send |-> <<Nil>>]
  ELSE [pc |-> "wait", i |-> k + 1, send |-> <<>>]

\* tryPackageTest's collecting loop, one iteration: e was received from pc as
\* outcome number k + 1 of n
pkgRecv(e, k, n) ==
  IF e # Nil THEN [pc |-> "done", i |-> k, send |-> <<e>>]
  ELSE IF k + 1 = n THEN [pc |-> "done", i |-> k + 1, send |-> <<Nil>>]
  ELSE [pc |-> "wait", i |-> k + 1, send |-> <<>>]

\* a receive that takes the newest outcome instead of the oldest
runTakeNewest(ch) == [e |-> ch[Len(ch)], rest |-> SubSeq(ch, 1, Len(ch) - 1)]

\* run's collecting loop, one iteration: the receive from results
runTake(ch) == [e |-> Head(ch), rest |-> Tail(ch)]

\* run's collecting loop, one iteration's body on the outcome e
runRecv(e) == IF e # Nil THEN [pc |-> "returned", err |-> e] ELSE [pc |-> "collect", err |-> Nil]

\* run's check of trialsN
badTrials(n) == n = 0

\* a pc channel without a buffer
pcCapUnbuffered(fails) == 0

\* the capacity of tryPackageTest's pc channel: one place per discovered case
pcCap(fails) == Len(fails)

\* the capacity of run's results channel: one place per launched target
resultsCap == Len(tests)

\* results closed on every return of run, as a deferred close would
closeOnAnyReturn(e) == TRUE

\* run closes results only on the return that follows its collecting loop
closeOnReturn(e) == e = Nil

\* the process goes on: no log.Fatalf and no panic has ended it
Running == ~exited /\ \A r \in DOMAIN proc : proc[r].pc # "panic"

\* goroutine r's control state p with the outcomes msgs it has sent
Sent(p, msgs) ==
  [p EXCEPT !.sent = @ + Len(msgs),
            !.out = IF msgs = <<>> THEN @ ELSE msgs[Len(msgs)]]

\* the send of msgs on results by goroutine r, with r's new control state p; a
\* send on the closed channel panics. The sequence holds the buffered outcomes
\* followed by the ones of the senders that wait for room, in their order, so
\* a sender is blocked while its outcome lies beyond the capacity.
sendResults(r, p, msgs) ==
  IF closed /\ msgs # <<>>
  THEN /\ proc' = [proc EXCEPT ![r] = [p EXCEPT !.pc = "panic"]]
       /\ UNCHANGED <<results, arrived>>
  ELSE /\ proc' = [proc EXCEPT ![r] = Sent(p, msgs)]
       /\ results' = results \o msgs
       /\ arrived' = arrived \o msgs

\* the send of msgs by goroutine r on its channel, with r's new control state p
Emit(r, p, msgs) ==
  IF IsTop(r)
  THEN /\ sendResults(r, p, msgs)
       /\ UNCHANGED pcs
  ELSE /\ proc' = [proc EXCEPT ![r] = Sent(p, msgs)]
       /\ pcs' = [pcs EXCEPT ![r[1]] = @ \o msgs]
       /\ UNCHANGED <<results, arrived>>

SetTask(r, t) ==
  IF IsTop(r)
  THEN /\ tests' = [tests EXCEPT ![r[1]] = t]
       /\ UNCHANGED failingTests
  ELSE /\ failingTests' = [failingTests EXCEPT ![r[1]][ObjOf(r)[2]] = t]
       /\ UNCHANGED tests

\* --------------------------------------------------------------------- actions
\* run, up to the launch of the goroutines
RunStart ==
  /\ runPc = "init"
  /\ Running
  /\ IF badTrials(trialsN)
     THEN /\ runPc' = "returned"
          /\ runErr' = ErrTrials
          /\ UNCHANGED <<GlobalTrialsAllowed, proc>>
     ELSE /\ GlobalTrialsAllowed' = trialsN
          /\ proc' = [r \in {Top(n) : n \in 1..Len(tests)} |-> NewProc(tryTest(Task(r)))]
          /\ runPc' = "collect"
          /\ UNCHANGED runErr
  /\ UNCHANGED <<trialsN, tests, failingTests, results, pcs, arrived, i, closed,
                 exited, built, filt, runner>>

\* tryTestCase: one evaluation of the loop condition and, when it holds, one
\* runTest with its outcome e; otherwise the send of the failure
tryTestCase(r) ==
  /\ Running
  /\ r \in DOMAIN proc
  /\ proc[r].pc = "loop"
  /\ LET t == Task(r)
     IN  IF loopCond(t)
         THEN \E e \in runner :
                LET res == caseIter(e)
                IN  /\ SetTask(r, runTest(t))
                    /\ Emit(r, [proc[r] EXCEPT !.pc = res.pc, !.last = res.last,
                                               !.runs = @ + 1, !.err = e],
                            res.send)
         ELSE LET res == caseExit(t)
              IN  /\ Emit(r, [proc[r] EXCEPT !.pc = res.pc], res.send)
                  /\ UNCHANGED <<tests, failingTests>>
  /\ UNCHANGED <<trialsN, GlobalTrialsAllowed, i, runPc, runErr, closed, exited, built, filt, runner>>

\* tryPackageTest up to the launch of the discovered cases: the run passes
tryPackageTestPass(n) ==
  /\ Running
  /\ Top(n) \in DOMAIN proc
  /\ proc[Top(n)].pc = "pkg"
  /\ SetTask(Top(n), runTest(tests[n]))
  /\ Emit(Top(n), [proc[Top(n)] EXCEPT !.pc = "done", !.last = "pass",
                                       !.runs = @ + 1, !.err = Nil],
          <<Nil>>)
  /\ UNCHANGED <<trialsN, GlobalTrialsAllowed, i, runPc, runErr, closed, exited, built, filt, runner>>

\* tryPackageTest up to the launch of the discovered cases: the run fails with
\* captured output o
tryPackageTestFail(n) ==
  /\ Running
  /\ Top(n) \in DOMAIN proc
  /\ proc[Top(n)].pc = "pkg"
  /\ \E e \in runner \ {Nil} : \E o \in OutputsOf(e) :
       LET fails == Extracted[o]
           p == [proc[Top(n)] EXCEPT !.last = "fail", !.o = o, !.runs = @ + 1, !.err = e]
       IN  /\ tests' = [tests EXCEPT ![n] = runTest(tests[n])]
           /\ Cardinality(DOMAIN proc) + Len(fails) <= MaxTasks
           /\ IF noFailures(fails)
              THEN /\ exited' = TRUE
                   /\ proc' = [proc EXCEPT ![Top(n)] = p]
                   /\ UNCHANGED failingTests
              ELSE /\ failingTests' = [failingTests EXCEPT ![n] = discovered(fails)]
                   /\ proc' = [r \in {Kid(n, j) : j \in 1..Len(fails)} |-> NewProc("loop")]
                                @@ [proc EXCEPT ![Top(n)] = [p EXCEPT !.pc = "wait"]]
                   /\ UNCHANGED exited
  /\ UNCHANGED <<trialsN, GlobalTrialsAllowed, results, pcs, arrived, i, runPc, runErr,
                 closed, built, filt, runner>>

\* tryPackageTest's collecting loop: one receive from pc
tryPackageTestRecv(n) ==
  /\ Running
  /\ Top(n) \in DOMAIN proc
  /\ proc[Top(n)].pc = "wait"
  /\ pcs[n] # <<>>
  /\ LET res == pkgRecv(Head(pcs[n]), proc[Top(n)].i, Len(failingTests[n]))
         p == [proc[Top(n)] EXCEPT !.pc = res.pc, !.i = res.i]
     IN  sendResults(Top(n), p, res.send)
  /\ pcs' = [pcs EXCEPT ![n] = Tail(@)]
  /\ UNCHANGED <<trialsN, GlobalTrialsAllowed, tests, failingTests, i, runPc, runErr,
                 closed, exited, built, filt, runner>>

\* run's collecting loop: one receive from results
RunRecv ==
  /\ Running
  /\ runPc = "collect"
  /\ i < Len(tests)
  /\ results # <<>>
  /\ LET rcv == runTake(results)
         res == runRecv(rcv.e)
     IN  /\ runPc' = res.pc
         /\ runErr' = res.err
         /\ i' = IF res.pc = "returned" THEN i ELSE i + 1
         /\ results' = rcv.rest
         /\ closed' = (closed \/ (res.pc = "returned" /\ closeOnReturn(res.err)))
  /\ UNCHANGED <<trialsN, GlobalTrialsAllowed, tests, failingTests, proc, pcs, arrived,
                 exited, built, filt, runner>>

\* run after its collecting loop: close(results); return nil
RunFinish ==
  /\ Running
  /\ runPc = "collect"
  /\ i = Len(tests)
  /\ closed' = closeOnReturn(Nil)
  /\ runPc' = "returned"
  /\ runErr' = Nil
  /\ UNCHANGED <<trialsN, GlobalTrialsAllowed, tests, failingTests, proc, results, pcs,
                 arrived, i, exited, built, filt, runner>>

\* ----------------------------------------------------------- specifications
Idle ==
  /\ failingTests = [n \in 1..Len(tests) |-> <<>>]
  /\ proc = <<>>
  /\ results = <<>>
  /\ pcs = [n \in 1..Len(tests) |-> <<>>]
  /\ arrived = <<>>
  /\ i = 0
  /\ runPc = "init"
  /\ runErr = Nil
  /\ closed = FALSE
  /\ exited = FALSE
  /\ built = [caseName |-> <<>>, ret |-> [test |-> <<>>, err |-> Nil]]

\* no application of the filter
NoFilter == [whitelistMatch |-> <<>>, blacklistMatch |-> <<>>, applied |-> FALSE,
             tests |-> <<>>]

\* A configured target: a package (kind 0; tryPackageTest never reads its
\* override, left unset) or a target declaring a case, with override kind - 1.
Kinds == 0..(MaxTrials + 1)

KindTest(n, k) ==
  IF k = 0 THEN Test(PkgName(n), 0, 0, <<>>)
  ELSE Test(PkgName(n), 0, k - 1, <<Case(<<"A">>, 0)>>)

\* the configurations, up to the order of the targets (all are launched at once)
Configs ==
  {cfg \in UNION {[1..k -> Kinds] : k \in 0..MaxTests} :
     \A n \in 1..(Len(cfg) - 1) : cfg[n] <= cfg[n + 1]}

Init ==
  /\ trialsN \in (-1)..MaxTrials
  /\ \E cfg \in Configs : tests = [n \in 1..Len(cfg) |-> KindTest(n, cfg[n])]
  /\ GlobalTrialsAllowed = 0
  /\ runner = {Nil, ExitErr}
  /\ filt = NoFilter
  /\ Idle

Next ==
  \/ RunStart
  \/ \E r \in DOMAIN proc : tryTestCase(r)
  \/ \E n \in 1..Len(tests) : tryPackageTestPass(n)
  \/ \E n \in 1..Len(tests) : tryPackageTestFail(n)
  \/ \E n \in 1..Len(tests) : tryPackageTestRecv(n)
  \/ RunRecv
  \/ RunFinish

Spec == Init /\ [][Next]_vars

\* the runs of the configurations whose targets set anyFailing either way
InitAny ==
  /\ trialsN \in 1..MaxTrials
  /\ \E cfg \in Configs : \E af \in [1..Len(cfg) -> BOOLEAN] :
       tests = [n \in 1..Len(cfg) |-> [KindTest(n, cfg[n]) EXCEPT !.AnyFailing = af[n]]]
  /\ GlobalTrialsAllowed = 0
  /\ runner = {Nil, ExitErr}
  /\ filt = NoFilter
  /\ Idle

\* the scheduler runs every goroutine that can take a step and every call of
\* the external process returns: some enabled step is eventually taken
FairSpec == Spec /\ WF_vars(Next)

SpecAny == InitAny /\ [][Next]_vars

\* the runs in which the external process may also fail to start
InitLaunch ==
  /\ trialsN \in 1..MaxTrials
  /\ \E cfg \in Configs : tests = [n \in 1..Len(cfg) |-> KindTest(n, cfg[n])]
  /\ GlobalTrialsAllowed = 0
  /\ runner = {Nil, ExitErr, LaunchErr}
  /\ filt = NoFilter
  /\ Idle

SpecLaunch == InitLaunch /\ [][Next]_vars

\* buildTestFromCase and getTrialsAllowed as functions: a target with declared
\* cases and overrides, a global default, and the case names to look up
CaseLists ==
  UNION {[1..k -> {Case(nm, a) : nm \in CaseNames, a \in Overrides}] : k \in 1..2}

InitBuild ==
  /\ trialsN \in 1..MaxTrials
  /\ GlobalTrialsAllowed = trialsN
  /\ \E cs \in CaseLists, a \in Overrides, d \in 0..1 :
       tests = <<Test(PkgName(1), d, a, cs)>>
  /\ runner = {Nil, ExitErr}
  /\ filt = NoFilter
  /\ Idle

BuildTest ==
  /\ \E nm \in CaseNames :
       built' = [caseName |-> nm, ret |-> buildTestFromCase(tests[1], nm)]
  /\ UNCHANGED <<trialsN, GlobalTrialsAllowed, tests, failingTests, proc, results, pcs,
                 arrived, i, runPc, runErr, closed, exited, filt, runner>>

NextBuild == BuildTest

SpecBuild == InitBuild /\ [][NextBuild]_vars

\* the filter as a function: configured targets, with or without a declared
\* case, and the two lists as run gets them
FilterNames == {<<"a", "b">>, <<"b">>, <<"c">>}

MatchStrings == {<<>>, <<"a">>, <<"b">>, <<"a", ",", "b">>, <<" ", "c", ",", "a">>}

FilterTargets ==
  {Test(nm, 0, 0, cs) : nm \in FilterNames,
                        cs \in {<<>>} \cup {<<Case(c, 0)>> : c \in FilterNames}}

InitFilter ==
  /\ trialsN \in 1..1
  /\ GlobalTrialsAllowed = 0
  /\ tests \in UNION {[1..k -> FilterTargets] : k \in 1..MaxTests}
  /\ runner = {Nil, ExitErr}
  /\ Idle
  /\ \E w \in MatchStrings, b \in MatchStrings :
       filt = [whitelistMatch |-> w, blacklistMatch |-> b, applied |-> FALSE,
               tests |-> <<>>]

FilterTests ==
  /\ ~filt.applied
  /\ filt' = [filt EXCEPT !.applied = TRUE,
                          !.tests = filterTests(tests,
                                                parseMatchList(filt.whitelistMatch),
                                                parseMatchList(filt.blacklistMatch))]
  /\ UNCHANGED <<trialsN, GlobalTrialsAllowed, tests, failingTests, proc, results, pcs,
                 arrived, i, runPc, runErr, closed, exited, built, runner>>

NextFilter == FilterTests

SpecFilter == InitFilter /\ [][NextFilter]_vars

\* ---------------------------------------------------------------- properties
\* the goroutines that run tryTestCase: the discovered cases, and the targets
\* tryTest sends to it
InCaseLoop(r) == ~IsTop(r) \/ tryTest(Task(r)) = "loop"

\* the package targets: the ones tryTest sends to tryPackageTest
Groups == {n \in 1..Len(tests) : tryTest(tests[n]) = "pkg"}

CaseLoops == {r \in DOMAIN proc : InCaseLoop(r)}

\* a target's trials-done when its goroutine starts
InitialDone(r) == IF IsTop(r) THEN 0 ELSE 1

Finished(r) == proc[r].pc = "done"

KidsOf(n) == {r \in DOMAIN proc : r[1] = n /\ ~IsTop(r)}

\* C1 (as claimed): whatever global trial count run accepts, a retry loop that
\* has sent its outcome has trials-done <= its resolved budget.
C1_DoneWithinBudget ==
  \A r \in CaseLoops :
    Finished(r) => Task(r).TrialsDone <= getTrialsAllowed(Task(r))

\* C2 (as claimed), for the runs with a positive global trial count: a retry
\* loop that has terminated has trials-done = budget exactly when its outcome
\* is exhaustion, so a loop that reports success is strictly below its budget.
C2_EqualIffExhausted ==
  \A r \in CaseLoops :
    (Finished(r) /\ trialsN > 0) =>
      ((Task(r).TrialsDone = getTrialsAllowed(Task(r))) <=> (proc[r].out # Nil))

\* C2 (amended): a retry loop that has terminated with exhaustion names its
\* target and has trials-done >= budget, equal to it whenever the loop started
\* at or below the budget; one that reports success passed on its last run and
\* has 1 <= trials-done <= budget, the budget included.
C2_ExhaustedAtBudget ==
  \A r \in CaseLoops :
    Finished(r) =>
      LET t == Task(r)
          b == getTrialsAllowed(t)
      IN  IF proc[r].out # Nil
          THEN /\ proc[r].out = FailErr(t.Name)
               /\ t.TrialsDone >= b
               /\ (InitialDone(r) <= b => t.TrialsDone = b)
               /\ proc[r].last # "pass"
          ELSE /\ proc[r].last = "pass"
               /\ t.TrialsDone > InitialDone(r)
               /\ t.TrialsDone <= b

\* a loop that reports success with trials-done equal to its budget
C2_Witness ==
  \E r \in CaseLoops :
    /\ Finished(r)
    /\ proc[r].out = Nil
    /\ Task(r).TrialsDone = getTrialsAllowed(Task(r))

\* C3: once a run of a case target passes in the retry loop, the loop has
\* reported success (one nil, and it is over) and the target is not run again.
C3_StopOnFirstSuccess ==
  [][\A r \in DOMAIN proc' :
       (InCaseLoop(r)' /\ proc'[r].last = "pass") =>
         /\ proc'[r].pc = "done"
         /\ proc'[r].out = Nil
         /\ proc'[r].sent = 1
         /\ (r \in DOMAIN proc /\ proc[r].last = "pass") =>
              Task(r)'.TrialsDone = Task(r).TrialsDone]_vars

\* a case target that passed with budget left, while another goroutine still runs
C3_Witness ==
  \E r \in CaseLoops :
    /\ proc[r].last = "pass"
    /\ Task(r).TrialsDone > InitialDone(r)
    /\ Task(r).TrialsDone < getTrialsAllowed(Task(r))
    /\ \E q \in DOMAIN proc : ~Finished(q)

\* what tryPackageTest of tests[n] has taken from its pc channel
Received(n) ==
  proc[Top(n)].i + (IF Finished(Top(n)) /\ proc[Top(n)].out # Nil THEN 1 ELSE 0)

\* C4: every launched goroutine sends at most one outcome on its channel, has
\* sent exactly one when it is over, and the channels hold exactly these
\* outcomes; when nothing can move any more (and no log.Fatalf ended the
\* process) every launched goroutine has sent its one outcome.
C4_ExactlyOneOutcome ==
  /\ \A r \in DOMAIN proc :
       /\ proc[r].sent <= 1
       /\ Finished(r) <=> proc[r].sent = 1
  /\ Len(arrived) = Cardinality({r \in DOMAIN proc : IsTop(r) /\ proc[r].sent = 1})
  /\ \A n \in Groups :
       Top(n) \in DOMAIN proc =>
         Received(n) + Len(pcs[n]) = Cardinality({r \in KidsOf(n) : proc[r].sent = 1})
  /\ (runPc # "init" /\ ~badTrials(trialsN)) =>
       \A n \in 1..Len(tests) : Top(n) \in DOMAIN proc
  /\ (~exited /\ ~ENABLED Next) => \A r \in DOMAIN proc : proc[r].sent = 1

\* a package whose two discovered cases both failed, and that sent one outcome
C4_Witness ==
  \E n \in Groups :
    /\ Top(n) \in DOMAIN proc
    /\ Finished(Top(n))
    /\ Cardinality(KidsOf(n)) >= 2
    /\ \A r \in KidsOf(n) : Finished(r) /\ proc[r].out # Nil
    /\ proc[Top(n)].sent = 1

\* C5 (as claimed), for the runs with a positive global trial count: no
\* configured target, with declared cases or without, is run as a whole more
\* than once.
C5_GroupRunOnce ==
  trialsN > 0 => \A n \in 1..Len(tests) : tests[n].TrialsDone <= 1

Exhausted(r) ==
  /\ Finished(r)
  /\ proc[r].out = FailErr(Task(r).Name)
  /\ Task(r).TrialsDone >= getTrialsAllowed(Task(r))

\* C6: a package's reconciliation that is over reports a failure exactly when
\* its own run failed and a discovered case has exhausted its budget, and the
\* failure is that case's; it reports success exactly when its run passed, with
\* no case loop launched, or failed and every discovered case reported success.
C6_GroupOutcome ==
  \A n \in Groups :
    (Top(n) \in DOMAIN proc /\ Finished(Top(n))) =>
      LET p == proc[Top(n)]
      IN  /\ tests[n].TrialsDone = 1
          /\ (p.out # Nil) <=>
               (p.last = "fail" /\ \E r \in KidsOf(n) : Exhausted(r) /\ p.out = proc[r].out)
          /\ (p.out = Nil) <=>
               \/ p.last = "pass" /\ KidsOf(n) = {} /\ failingTests[n] = <<>>
               \/ /\ p.last = "fail"
                  /\ Cardinality(KidsOf(n)) = Len(failingTests[n])
                  /\ KidsOf(n) # {}
                  /\ \A r \in KidsOf(n) : Finished(r) /\ proc[r].out = Nil

\* a failed package with one case that passed on its retry and one that
\* exhausted its budget, reconciled to that case's failure
C6_Witness ==
  \E n \in Groups :
    /\ Top(n) \in DOMAIN proc
    /\ Finished(Top(n))
    /\ proc[Top(n)].out # Nil
    /\ \E r \in KidsOf(n) : Finished(r) /\ proc[r].out = Nil
    /\ \E r \in KidsOf(n) : Exhausted(r)

\* a failed package whose case passed on its retry, reconciled to success
C6_WitnessSuccess ==
  \E n \in Groups :
    /\ Top(n) \in DOMAIN proc
    /\ Finished(Top(n))
    /\ proc[Top(n)].last = "fail"
    /\ proc[Top(n)].out = Nil

\* the first failure among the outcomes xs; nil when there is none
RECURSIVE FirstFailure(_)
FirstFailure(xs) ==
  IF xs = <<>> THEN Nil
  ELSE IF Head(xs) # Nil THEN Head(xs) ELSE FirstFailure(Tail(xs))

\* C7: run, once it has launched the targets and returned, returns nil only
\* after it received a nil from every launched target, and otherwise the first
\* failure in the order of arrival on results.
C7_FirstFailureByArrival ==
  (runPc = "returned" /\ ~badTrials(trialsN)) =>
    /\ runErr = FirstFailure(arrived)
    /\ runErr = Nil =>
         /\ i = Len(tests)
         /\ Len(arrived) = Len(tests)
         /\ results = <<>>
         /\ \A n \in 1..Len(tests) : Finished(Top(n)) /\ proc[Top(n)].out = Nil
    /\ runErr # Nil =>
         \E n \in 1..Len(tests) : Finished(Top(n)) /\ proc[Top(n)].out = runErr

\* run returned the failure of the target launched second, which arrived
\* before the failure of the target launched first
C7_Witness ==
  /\ runPc = "returned"
  /\ Len(tests) >= 2
  /\ Len(arrived) >= 2
  /\ runErr = FailErr(tests[2].Name)
  /\ arrived[1] = runErr
  /\ arrived[2] = FailErr(tests[1].Name)

\* C8: a package whose run failed with an output in which grepFailures finds
\* no name ends the process (log.Fatalf): it sends no outcome, neither nil nor
\* a failure, and no case target or case loop exists for it; and the process is
\* ended by such a package only.
C8_ZeroExtractionAborts ==
  /\ \A n \in Groups :
       (Top(n) \in DOMAIN proc /\ proc[Top(n)].last = "fail"
          /\ grepFailures(proc[Top(n)].o) = <<>>) =>
         /\ exited
         /\ proc[Top(n)].sent = 0
         /\ ~Finished(Top(n))
         /\ failingTests[n] = <<>>
         /\ KidsOf(n) = {}
         /\ runErr # FailErr(tests[n].Name)
  /\ exited =>
       \E n \in Groups :
         /\ Top(n) \in DOMAIN proc
         /\ proc[Top(n)].last = "fail"
         /\ grepFailures(proc[Top(n)].o) = <<>>

\* a package failed with a non-empty output without failure lines while
\* another target was still running
C8_Witness ==
  /\ exited
  /\ \E n \in Groups :
       /\ Top(n) \in DOMAIN proc
       /\ proc[Top(n)].last = "fail"
       /\ proc[Top(n)].o # <<>>
       /\ grepFailures(proc[Top(n)].o) = <<>>
  /\ \E q \in DOMAIN proc : proc[q].pc = "loop"

\* the budget the three levels of override give, zero meaning unset
Precedence(caseAllowed, groupAllowed, global) ==
  IF caseAllowed # 0 THEN caseAllowed
  ELSE IF groupAllowed # 0 THEN groupAllowed
  ELSE global

\* C9 (as claimed): the budget of a case target built from a group is the
\* case's override, else the group's override, else the global default.
C9_BudgetPrecedence ==
  built.ret.test # <<>> =>
    getTrialsAllowed(built.ret.test[1])
      = Precedence(getCase(tests[1], built.caseName)[1].TrialsAllowed,
                   tests[1].TrialsAllowed,
                   GlobalTrialsAllowed)

\* C10 (as claimed): with a non-positive trialsN, run launches and runs no
\* target, and if it has returned it returned the configuration error.
C10_RejectsNonPositive ==
  trialsN <= 0 =>
    /\ proc = <<>>
    /\ \A n \in 1..Len(tests) : tests[n].TrialsDone = 0
    /\ runPc = "returned" => runErr = ErrTrials
    /\ runPc # "collect"

\* the elements of a sequence
Range(xs) == {xs[k] : k \in 1..Len(xs)}

\* a list entry is in the target's name or in the name of a declared case
MatchesAny(t, list) ==
  \E m \in Range(list) :
    \/ Contains(t.Name, m)
    \/ \E c \in Range(t.Cases) : Contains(c.Name, m)

\* C11: a target whose name or a declared case's name contains an entry of the
\* blacklist is not among the targets the filter keeps, whatever the whitelist.
C11_BlacklistWins ==
  filt.applied =>
    \A n \in 1..Len(tests) :
      MatchesAny(tests[n], parseMatchList(filt.blacklistMatch)) =>
        tests[n] \notin Range(filt.tests)

\* a target dropped for a declared case's name on the blacklist although its
\* name is on the whitelist
C11_Witness ==
  /\ filt.applied
  /\ \E n \in 1..Len(tests) :
       /\ tests[n] \notin Range(filt.tests)
       /\ parseMatchList(filt.whitelistMatch) # <<>>
       /\ Contains(tests[n].Name, parseMatchList(filt.whitelistMatch)[1])
       /\ ~\E m \in Range(parseMatchList(filt.blacklistMatch)) : Contains(tests[n].Name, m)
       /\ MatchesAny(tests[n], parseMatchList(filt.blacklistMatch))

\* C12 (as claimed): with an empty blacklist the filter keeps a target exactly
\* when the whitelist is empty or an entry of it, the first or another, is in
\* the target's name or in a declared case's name.
C12_WhitelistAnyEntry ==
  (filt.applied /\ parseMatchList(filt.blacklistMatch) = <<>>) =>
    \A n \in 1..Len(tests) :
      (tests[n] \in Range(filt.tests)) <=>
        \/ parseMatchList(filt.whitelistMatch) = <<>>
        \/ MatchesAny(tests[n], parseMatchList(filt.whitelistMatch))

\* the Tests of the run, as places in tests and failingTests
Objects ==
  {Top(n) : n \in 1..Len(tests)}
    \cup UNION {{<<n, j>> : j \in 1..Len(failingTests[n])} : n \in 1..Len(tests)}

ObjTest(obj) == IF IsTop(obj) THEN tests[obj[1]] ELSE failingTests[obj[1]][obj[2]]

\* the goroutines that have called runTest on the Test obj
Writers(obj) == {r \in DOMAIN proc : ObjOf(r) = obj /\ proc[r].runs > 0}

RECURSIVE SumRuns(_)
SumRuns(rs) ==
  IF rs = {} THEN 0
  ELSE LET r == CHOOSE x \in rs : TRUE IN proc[r].runs + SumRuns(rs \ {r})

\* C13: every trials-done counter is written by at most one goroutine and counts
\* that goroutine's runs on top of its initial value; each extracted name,
\* repeated or not, has a goroutine and a counter of its own.
C13_OneWriterPerCounter ==
  /\ \A obj \in Objects :
       /\ Cardinality(Writers(obj)) <= 1
       /\ ObjTest(obj).TrialsDone = InitialDone(obj) + SumRuns(Writers(obj))
  /\ \A r \in DOMAIN proc, q \in DOMAIN proc : ObjOf(r) = ObjOf(q) => r = q
  /\ \A n \in Groups :
       (Top(n) \in DOMAIN proc /\ proc[Top(n)].last = "fail" /\ ~exited) =>
         /\ Len(failingTests[n]) = Len(grepFailures(proc[Top(n)].o))
         /\ KidsOf(n) = {Kid(n, j) : j \in 1..Len(failingTests[n])}

\* the same name extracted twice: two loops, one has run its target again and
\* the other has not yet
C13_Witness ==
  \E n \in Groups :
    \E r \in KidsOf(n), q \in KidsOf(n) :
      /\ r # q
      /\ Task(r).Name = Task(q).Name
      /\ proc[r].runs = 1
      /\ proc[q].runs = 0
      /\ Task(r).TrialsDone = 2
      /\ Task(q).TrialsDone = 1

\* C16: a step in which a goroutine calls runTest adds exactly one to the
\* trials-done of that goroutine's target, whatever the outcome, and leaves the
\* trials-done of every other existing target as it is; a step without a call
\* of runTest changes no existing target's trials-done; no step holds two calls.
C16_RunTestCountsOne ==
  [][LET Ran == {r \in DOMAIN proc : proc'[r].runs # proc[r].runs}
     IN  /\ Cardinality(Ran) <= 1
         /\ \A r \in Ran : proc'[r].runs = proc[r].runs + 1
         /\ \A obj \in Objects :
              ObjTest(obj)'.TrialsDone =
                ObjTest(obj).TrialsDone + (IF \E r \in Ran : ObjOf(r) = obj THEN 1 ELSE 0)]_vars

\* a target run twice, failing and then passing, beside a target not yet run
C16_Witness ==
  /\ \E r \in DOMAIN proc :
       proc[r].runs = 2 /\ proc[r].last = "pass" /\ Task(r).TrialsDone = 2
  /\ \E q \in DOMAIN proc : proc[q].runs = 0 /\ Task(q).TrialsDone = 0

\* C17: a discovered case starts with trials-done 1 and its loop runs it at most
\* budget - 1 times; with a budget of 1 (or less) it is never run again, its
\* loop reports exhaustion, and the package reconciles to a failure.
C17_DiscoveredStartsAtOne ==
  \A n \in Groups : \A r \in KidsOf(n) :
    LET b == getTrialsAllowed(Task(r))
    IN  /\ Task(r).TrialsDone = 1 + proc[r].runs
        /\ b >= 1 => proc[r].runs <= b - 1
        /\ b <= 1 =>
             /\ proc[r].runs = 0
             /\ Finished(r) => proc[r].out = FailErr(Task(r).Name)
             /\ Finished(Top(n)) => proc[Top(n)].out # Nil

\* a package with a budget of 1 whose discovered case was not run again and
\* that reconciled to that case's failure
C17_Witness ==
  \E n \in Groups : \E r \in KidsOf(n) :
    /\ getTrialsAllowed(Task(r)) = 1
    /\ Finished(r)
    /\ proc[r].runs = 0
    /\ Finished(Top(n))
    /\ proc[Top(n)].out = FailErr(Task(r).Name)

\* C15: a package whose anyFailing is false and whose run failed has a failure
\* as its outcome, even if every discovered case then passes within its budget
\* (only with anyFailing true is a failing case that later passes tolerated).
C15_AnyFailingPolicy ==
  \A n \in Groups :
    (/\ Top(n) \in DOMAIN proc
     /\ Finished(Top(n))
     /\ ~tests[n].AnyFailing
     /\ proc[Top(n)].last = "fail") => proc[Top(n)].out # Nil

\* C18: once a call of runTest has returned the error of a process that could
\* not be started, the run has been aborted: no goroutine goes on after it.
C18_LaunchFailureAborts ==
  \A r \in DOMAIN proc : proc[r].err = LaunchErr => exited

\* C20: results is closed only by the return of nil, after run has received one
\* outcome from every launched target, each of which has sent its one outcome
\* and is over; no goroutine ever sends on the closed channel (no panic); a
\* return of a failure leaves the channel open; and the outcomes ever sent on
\* results never outnumber its capacity.
C20_CloseAfterAllReceived ==
  /\ closed =>
       /\ runPc = "returned" /\ runErr = Nil
       /\ i = Len(tests)
       /\ Len(arrived) = Len(tests) /\ results = <<>>
       /\ \A n \in 1..Len(tests) :
            Top(n) \in DOMAIN proc /\ Finished(Top(n)) /\ proc[Top(n)].sent = 1
  /\ \A r \in DOMAIN proc : proc[r].pc # "panic"
  /\ (runPc = "returned" /\ runErr # Nil) => ~closed
  /\ Len(arrived) <= resultsCap
  /\ Len(results) <= resultsCap

\* run has returned the first failure of two targets and the other target's
\* outcome, never received, lies in the channel left open; as many outcomes
\* were sent as the channel has places
C20_Witness ==
  /\ runPc = "returned" /\ runErr # Nil /\ runErr # ErrTrials
  /\ ~closed
  /\ Len(tests) = 2
  /\ Len(arrived) = resultsCap
  /\ results # <<>>
  /\ \A n \in 1..Len(tests) : Finished(Top(n))

Max0(x) == IF x > 0 THEN x ELSE 0

\* the round is over for run: it has returned, or log.Fatalf ended the process
RunOver == runPc = "returned" \/ exited

\* C19: under fair scheduling, every retry loop calls runTest at most
\* max(0, budget - initial trials-done) times, and run eventually returns an
\* outcome unless a package's run without failure lines ends the process.
C19_Termination ==
  /\ [](\A r \in CaseLoops :
          proc[r].runs <= Max0(getTrialsAllowed(Task(r)) - InitialDone(r)))
  /\ <>RunOver
  /\ [](RunOver => (exited \/ runErr = ErrTrials \/ runErr = FirstFailure(arrived)))

\* run has returned nil after a target's loop made its two allowed calls of
\* runTest and a package's discovered case made its one
C19_Witness ==
  /\ runPc = "returned" /\ runErr = Nil /\ ~exited
  /\ \E r \in CaseLoops : IsTop(r) /\ proc[r].runs = 2 /\ getTrialsAllowed(Task(r)) = 2
  /\ \E r \in CaseLoops : ~IsTop(r) /\ proc[r].runs = 1 /\ getTrialsAllowed(Task(r)) = 2

\* some sender waits for room on a channel: an outcome lies beyond the capacity
SendBlocked ==
  \/ Len(results) > resultsCap
  \/ \E n \in 1..Len(tests) : Len(pcs[n]) > pcCap(failingTests[n])

\* run has returned the first failure, or a package has returned on the first
\* failure of a discovered case before it received them all
ShortCircuited ==
  \/ runPc = "returned" /\ runErr # Nil /\ runErr # ErrTrials
  \/ \E n \in Groups :
       /\ Top(n) \in DOMAIN proc
       /\ Finished(Top(n)) /\ proc[Top(n)].out # Nil
       /\ proc[Top(n)].i + 1 < Len(failingTests[n])

====
